---------------------------- MODULE Spec2Model ----------------------------
(***************************************************************************)
(* Model of the cashone backend core: the transaction ledger               *)
(* (transactionService / transactionRepository), the Monobank              *)
(* synchronisation engine (MonobankService) and the category hierarchy     *)
(* (categoryService / categoryRepository).                                 *)
(*                                                                         *)
(* The database is PostgreSQL behind GORM at its default isolation level   *)
(* (READ COMMITTED): a row written inside db.Transaction(...) becomes      *)
(* visible to other requests at commit, a plain SELECT takes no row lock,  *)
(* and an UPDATE of a row is immediately followed by the commit in every   *)
(* transaction modelled here, so save-and-commit is one step.              *)
(***************************************************************************)
EXTENDS Integers, Sequences, FiniteSets, TLC

(***************************************************************************)
(* Bounds of the model.                                                    *)
(***************************************************************************)
NumProcs == 2       \* concurrent requests (goroutines)
MaxTx == 2          \* transaction rows ever inserted by manual requests
MaxImport == 3      \* transaction rows ever inserted, imports included
MaxAmount == 2      \* largest amount of a manual request
MaxBalance == 2     \* largest opening balance of a card
MaxCats == 3        \* category ids

Procs == 1..NumProcs
Users == {1, 2}
TxIds == 1..MaxImport
CatIds == 1..MaxCats

UAH == 980               \* currency code of every card of the model
OtherCurrency == UAH + 1
Now == 3                 \* time.Now(): later than every statement item

Types == {"expense", "income", "transfer"}

VARIABLES
    cards,          \* cards table: card id -> row
    txs,            \* transactions table: set of committed rows
    nextTx,         \* next transaction id (gen_random_uuid)
    integrations,   \* monobank_integrations table: set of rows
    cats,           \* categories table: category id -> row
    pc,             \* per request: position inside the running call
    req,            \* per request: the locals of the running call
    last,           \* the call that returned in the latest step, with its result
    opening         \* history: balance each card had in the initial state

vars == <<cards, txs, nextTx, integrations, cats, pc, req, last, opening>>

NoCall == [op |-> "none", result |-> "none", user |-> 0, type |-> "",
           amount |-> 0, id |-> 0]

Idle == [op |-> "none"]

(***************************************************************************)
(* Pure helpers of the ledger.                                             *)
(***************************************************************************)

\* transactionService.CreateTransaction, the switch on transaction.Type
SignedDelta(type, amount) ==
    CASE type = "expense"  -> 0 - amount
      [] type = "income"   -> amount
      [] type = "transfer" -> 0 - amount
      [] OTHER             -> 0

\* variant: a transfer is added to the balance
ApplyToBalanceTransferAdds(balance, type, amount) ==
    CASE type = "income"   -> balance + amount
      [] type = "expense"  -> balance - amount
      [] type = "transfer" -> balance + amount
      [] OTHER             -> balance

\* transactionRepository.Create, the switch that updates card.Balance
ApplyToBalance(balance, type, amount) ==
    CASE type = "income"   -> balance + amount
      [] type = "expense"  -> balance - amount
      [] type = "transfer" -> balance - amount
      [] OTHER             -> balance

\* transactionService.validateTransaction
validateTransaction(tx, card) ==
    IF tx.amount <= 0 THEN "InvalidTransaction"
    ELSE IF tx.type \notin Types THEN "InvalidTransaction"
    ELSE IF tx.currency # card.currency THEN "InvalidTransaction"
    ELSE IF tx.description = "" THEN "InvalidTransaction"
    ELSE "ok"

\* variant: the type of the category is not compared
verifyCategoryIgnoresType(user, tx) ==
    IF tx.category = 0 THEN "ok"
    ELSE IF tx.category \notin DOMAIN cats THEN "CategoryNotFound"
    ELSE IF cats[tx.category].owner # user THEN "Unauthorized"
    ELSE "ok"

\* the category block shared by CreateTransaction and UpdateTransaction
verifyCategory(user, tx) ==
    IF tx.category = 0 THEN "ok"
    ELSE IF tx.category \notin DOMAIN cats THEN "CategoryNotFound"
    ELSE IF cats[tx.category].owner # user THEN "Unauthorized"
    ELSE IF cats[tx.category].type # tx.type THEN "CategoryTypeMismatch"
    ELSE "ok"

\* variant: one unit past the credit limit is let through
ExceedsCreditLimitOffByOne(newBalance, card) == newBalance + 1 < 0 - card.creditLimit

\* the credit-limit test of CreateTransaction
ExceedsCreditLimit(newBalance, card) == newBalance < 0 - card.creditLimit

\* transactionService.CreateTransaction up to the call of the repository:
\* the result of the checks ("ok" when the repository is called)
CreateCheck(user, tx) ==
    IF tx.card \notin DOMAIN cards THEN "CardNotFound"
    ELSE IF cards[tx.card].owner # user THEN "Unauthorized"
    ELSE IF verifyCategory(user, tx) # "ok" THEN verifyCategory(user, tx)
    ELSE IF validateTransaction(tx, cards[tx.card]) # "ok"
         THEN validateTransaction(tx, cards[tx.card])
    ELSE IF ExceedsCreditLimit(cards[tx.card].balance + SignedDelta(tx.type, tx.amount),
                               cards[tx.card])
         THEN "InsufficientFunds"
    ELSE "ok"

Call(op, result, user, tx, id) ==
    [op |-> op, result |-> result, user |-> user, type |-> tx.type,
     amount |-> tx.amount, id |-> id]

\* the row with the given id, as transactionRepository.GetByID finds it
TxById(id) == {t \in txs : t.id = id}

InFlightInserts == Cardinality({q \in Procs : pc[q] = "insert"})

(***************************************************************************)
(* transactionRepository.Create: db.Transaction(func(tx) { tx.Create;      *)
(* tx.First(&card); card.Balance +/-= amount; tx.Save(&card) }).  Three    *)
(* statements, then the commit.  The caller is CreateTransaction,          *)
(* HandleWebhook or the per-item loop of syncCardTransactions.             *)
(***************************************************************************)

\* what the caller does when the repository call returns `result`
RepoReturn(p, result) ==
    IF req[p].op = "SyncUserData"
    THEN \* syncCardTransactions logs a failure and continues with the next item
         /\ pc' = [pc EXCEPT ![p] = "sync_item"]
         /\ req' = [req EXCEPT ![p] = [op |-> "SyncUserData", user |-> req[p].user,
                                       token |-> req[p].token,
                                       cardsLeft |-> req[p].cardsLeft,
                                       card |-> req[p].card,
                                       itemsLeft |-> req[p].itemsLeft,
                                       failed |-> req[p].failed,
                                       fetched |-> req[p].fetched]]
         /\ last' = NoCall
    ELSE /\ pc' = [pc EXCEPT ![p] = "idle"]
         /\ req' = [req EXCEPT ![p] = Idle]
         /\ last' = Call(req[p].op, result, req[p].user, req[p].tx,
                         IF result = "ok" THEN req[p].tx.id ELSE 0)

\* tx.Create(transaction): the row gets its id; the foreign key on card_id
\* requires the card row
RepoInsert(p) ==
    /\ pc[p] = "insert"
    /\ IF req[p].tx.card \in DOMAIN cards
       THEN /\ nextTx' = nextTx + 1
            /\ pc' = [pc EXCEPT ![p] = "first"]
            /\ req' = [req EXCEPT ![p].tx.id = nextTx]
            /\ last' = NoCall
       ELSE /\ RepoReturn(p, "DatabaseError")
            /\ UNCHANGED nextTx
    /\ UNCHANGED <<cards, txs, integrations, cats, opening>>

\* tx.First(&card, transaction.CardID): a plain SELECT of the committed row
RepoFirst(p) ==
    /\ pc[p] = "first"
    /\ IF req[p].tx.card \in DOMAIN cards
       THEN /\ pc' = [pc EXCEPT ![p] = "save"]
            /\ req' = [req EXCEPT ![p].rcard = cards[req[p].tx.card]]
            /\ last' = NoCall
       ELSE RepoReturn(p, "DatabaseError")
    /\ UNCHANGED <<cards, txs, nextTx, integrations, cats, opening>>

\* the card row tx.Save(&card) writes: every column as read by tx.First,
\* the balance moved by the transaction
SavedCard(rcard, tx) ==
    [rcard EXCEPT !.balance = ApplyToBalance(rcard.balance, tx.type, tx.amount)]

\* the committed row; `via` is history, the operation that stored the row
Stored(tx, op) ==
    [f \in DOMAIN tx \cup {"via"} |-> IF f = "via" THEN op ELSE tx[f]]

\* tx.Save(&card) and the commit: the inserted row becomes visible
RepoSave(p) ==
    /\ pc[p] = "save"
    /\ req[p].tx.card \in DOMAIN cards
    /\ cards' = [cards EXCEPT ![req[p].tx.card] = SavedCard(req[p].rcard, req[p].tx)]
    /\ txs' = txs \cup {Stored(req[p].tx, req[p].op)}
    /\ RepoReturn(p, "ok")
    /\ UNCHANGED <<nextTx, integrations, cats, opening>>

\* variant: a failure after the insert leaves the inserted row behind
RepoFailKeepsRow(p) ==
    /\ pc[p] \in {"insert", "first", "save"}
    /\ txs' = IF pc[p] = "insert" THEN txs
              ELSE txs \cup {Stored(req[p].tx, req[p].op)}
    /\ RepoReturn(p, "DatabaseError")
    /\ UNCHANGED <<cards, nextTx, integrations, cats, opening>>

\* a statement of transactionRepository.Create returns an error (storage
\* failure): the closure returns it and db.Transaction rolls back
RepoFail(p) ==
    /\ pc[p] \in {"insert", "first", "save"}
    /\ txs' = txs
    /\ RepoReturn(p, "DatabaseError")
    /\ UNCHANGED <<cards, nextTx, integrations, cats, opening>>

(***************************************************************************)
(* transactionService                                                      *)
(***************************************************************************)

\* the transaction handed to the repository by CreateTransaction
PreparedTx(user, in) ==
    [id |-> 0, card |-> in.card, owner |-> user, category |-> in.category,
     type |-> in.type, amount |-> in.amount, currency |-> in.currency,
     description |-> in.description,
     balanceAfter |-> cards[in.card].balance + SignedDelta(in.type, in.amount),
     date |-> IF in.date = 0 THEN Now ELSE in.date,
     monobankID |-> ""]

CreateTransaction(p, user, in) ==
    /\ pc[p] = "idle"
    /\ nextTx + InFlightInserts <= MaxTx
    /\ IF CreateCheck(user, in) = "ok"
       THEN /\ pc' = [pc EXCEPT ![p] = "insert"]
            /\ req' = [req EXCEPT ![p] = [op |-> "CreateTransaction", user |-> user,
                                          tx |-> PreparedTx(user, in),
                                          scard |-> cards[in.card],
                                          rcard |-> cards[in.card]]]
            /\ last' = NoCall
       ELSE /\ last' = Call("CreateTransaction", CreateCheck(user, in), user, in, 0)
            /\ UNCHANGED <<pc, req>>
    /\ UNCHANGED <<cards, txs, nextTx, integrations, cats, opening>>

\* variant: the provenance of the stored row is not looked at
UpdateCheckIgnoresProvenance(user, in) ==
    IF TxById(in.id) = {} THEN "TransactionNotFound"
    ELSE LET existing == CHOOSE t \in txs : t.id = in.id IN
         IF existing.owner # user THEN "Unauthorized"
         ELSE IF existing.card \notin DOMAIN cards THEN "CardNotFound"
         ELSE IF verifyCategory(user, in) # "ok" THEN verifyCategory(user, in)
         ELSE validateTransaction(in, cards[existing.card])

\* transactionService.UpdateTransaction up to the call of the repository
UpdateCheck(user, in) ==
    IF TxById(in.id) = {} THEN "TransactionNotFound"
    ELSE LET existing == CHOOSE t \in txs : t.id = in.id IN
         IF existing.owner # user THEN "Unauthorized"
         ELSE IF existing.monobankID # "" THEN "CannotModifyExternal"
         ELSE IF existing.card \notin DOMAIN cards THEN "CardNotFound"
         ELSE IF verifyCategory(user, in) # "ok" THEN verifyCategory(user, in)
         ELSE validateTransaction(in, cards[existing.card])

\* transactionRepository.Update: the columns of the Updates(...) map
UpdatedRow(existing, in) ==
    [existing EXCEPT !.category = in.category, !.amount = in.amount,
                     !.currency = in.currency, !.type = in.type,
                     !.description = in.description,
                     !.balanceAfter = in.balanceAfter, !.date = in.date]

UpdateTransaction(p, user, in) ==
    /\ pc[p] = "idle"
    /\ IF UpdateCheck(user, in) = "ok"
       THEN LET existing == CHOOSE t \in txs : t.id = in.id IN
            txs' = (txs \ {existing}) \cup {UpdatedRow(existing, in)}
       ELSE UNCHANGED txs
    /\ last' = [NoCall EXCEPT !.op = "UpdateTransaction",
                              !.result = UpdateCheck(user, in), !.id = in.id]
    /\ UNCHANGED <<cards, nextTx, integrations, cats, pc, req, opening>>

\* transactionService.DeleteTransaction up to the call of the repository
DeleteCheck(user, id) ==
    IF TxById(id) = {} THEN "TransactionNotFound"
    ELSE LET existing == CHOOSE t \in txs : t.id = id IN
         IF existing.owner # user THEN "Unauthorized"
         ELSE IF existing.monobankID # "" THEN "CannotModifyExternal"
         ELSE "ok"

DeleteTransaction(p, user, id) ==
    /\ pc[p] = "idle"
    /\ IF DeleteCheck(user, id) = "ok"
       THEN txs' = {t \in txs : t.id # id}
       ELSE UNCHANGED txs
    /\ last' = [NoCall EXCEPT !.op = "DeleteTransaction",
                              !.result = DeleteCheck(user, id), !.id = id]
    /\ UNCHANGED <<cards, nextTx, integrations, cats, pc, req, opening>>

(***************************************************************************)
(* MonobankService: webhook ingestion and polling                          *)
(***************************************************************************)

\* The statement items the provider holds, newest first as its statement
\* endpoint lists them; the same items arrive as webhook payloads.
ProviderItems ==
    << [id |-> "m2", account |-> "acc1", time |-> 2, amount |-> 2, balance |-> 3,
        currency |-> UAH, description |-> "salary"],
       [id |-> "m1", account |-> "acc1", time |-> 1, amount |-> 0 - 1, balance |-> 1,
        currency |-> UAH, description |-> "coffee"],
       [id |-> "m3", account |-> "acc2", time |-> 1, amount |-> 1, balance |-> 1,
        currency |-> UAH, description |-> "refund"] >>

ItemSet == {ProviderItems[i] : i \in DOMAIN ProviderItems}

MonthAgo == Now - 3      \* time.Now().AddDate(0, -1, 0): before every item

abs(n) == IF n < 0 THEN 0 - n ELSE n

\* MonobankService.convertMonobankTransaction
convertMonobankTransaction(monoTx, cardId, card) ==
    [id |-> 0, card |-> cardId, owner |-> card.owner, category |-> 0,
     type |-> IF monoTx.amount > 0 THEN "income" ELSE "expense",
     amount |-> abs(monoTx.amount), currency |-> monoTx.currency,
     description |-> monoTx.description, balanceAfter |-> monoTx.balance,
     date |-> monoTx.time, monobankID |-> monoTx.id]

\* cardRepository.GetByMonobankAccountID: the ids of the matching rows
\* (First returns the one with the lowest primary key)
GetByMonobankAccountID(account) ==
    {c \in DOMAIN cards : cards[c].account = account /\ ~cards[c].isManual}

MinOf(S) == CHOOSE x \in S : \A y \in S : x <= y

\* transactionRepository.GetByMonobankID
GetByMonobankID(monobankID) == {t \in txs : t.monobankID = monobankID}

\* MonobankService.HandleWebhook
HandleWebhook(p, payload) ==
    /\ pc[p] = "idle"
    /\ nextTx + InFlightInserts <= MaxImport
    /\ IF payload.type # "StatementItem"
       THEN \* default: the type is logged, nil is returned
            /\ last' = [NoCall EXCEPT !.op = "HandleWebhook", !.result = "ok"]
            /\ UNCHANGED <<pc, req>>
       ELSE IF GetByMonobankAccountID(payload.account) = {}
       THEN /\ last' = [NoCall EXCEPT !.op = "HandleWebhook", !.result = "CardNotFound"]
            /\ UNCHANGED <<pc, req>>
       ELSE LET c == MinOf(GetByMonobankAccountID(payload.account)) IN
            /\ pc' = [pc EXCEPT ![p] = "insert"]
            /\ req' = [req EXCEPT ![p] =
                          [op |-> "HandleWebhook", user |-> 0,
                           tx |-> convertMonobankTransaction(payload.item, c, cards[c]),
                           scard |-> cards[c], rcard |-> cards[c]]]
            /\ last' = NoCall
    /\ UNCHANGED <<cards, txs, nextTx, integrations, cats, opening>>

\* monobankService.HandleWebhook of the app tree: the same steps, but the
\* default branch of the switch returns an error after logging the type
HandleWebhookApp(p, payload) ==
    IF payload.type # "StatementItem"
    THEN /\ pc[p] = "idle"
         /\ last' = [NoCall EXCEPT !.op = "HandleWebhook",
                                   !.result = "UnknownWebhookType"]
         /\ UNCHANGED <<cards, txs, nextTx, integrations, cats, pc, req, opening>>
    ELSE HandleWebhook(p, payload)

\* a row of monobank_integrations
Integration(id, owner, token) == [id |-> id, owner |-> owner, token |-> token]

\* monobankIntegrationRepository.GetByUserID: the rows of the user; First
\* returns the one with the lowest id
IntegrationsOf(user) == {i \in integrations : i.owner = user}

FirstIntegration(user) ==
    CHOOSE i \in IntegrationsOf(user) : \A j \in IntegrationsOf(user) : i.id <= j.id

\* the cards SyncUserData passes to syncCardTransactions, in the order of
\* cardRepo.GetByUserID
SyncCards(user) ==
    {c \in DOMAIN cards : cards[c].owner = user /\ ~cards[c].isManual
                          /\ cards[c].account # ""}

RECURSIVE SetToSeq(_)
SetToSeq(S) == IF S = {} THEN <<>> ELSE <<MinOf(S)>> \o SetToSeq(S \ {MinOf(S)})

\* MonobankService.SyncUserData, up to the loop over the cards.  `failed`
\* (the cards whose failure was logged) and `fetched` (the items the provider
\* returned, by card) are history of the call.
SyncUserData(p, user) ==
    /\ pc[p] = "idle"
    /\ IF IntegrationsOf(user) = {}
       THEN /\ last' = [NoCall EXCEPT !.op = "SyncUserData", !.user = user,
                                      !.result = "IntegrationNotFound"]
            /\ UNCHANGED <<pc, req>>
       ELSE /\ pc' = [pc EXCEPT ![p] = "sync_card"]
            /\ req' = [req EXCEPT ![p] =
                          [op |-> "SyncUserData", user |-> user,
                           token |-> FirstIntegration(user).token,
                           cardsLeft |-> [i \in 1..Cardinality(SyncCards(user)) |->
                                            [id |-> SetToSeq(SyncCards(user))[i],
                                             row |-> cards[SetToSeq(SyncCards(user))[i]]]],
                           card |-> 0, itemsLeft |-> <<>>,
                           failed |-> {}, fetched |-> <<>>]]
            /\ last' = NoCall
    /\ UNCHANGED <<cards, txs, nextTx, integrations, cats, opening>>

\* syncCardTransactions: the cursor, from txRepo.GetByCardID(card.ID, 1, 0)
Cursor(cardId) ==
    LET mine == {t \in txs : t.card = cardId} IN
    IF mine = {} THEN MonthAgo
    ELSE CHOOSE d \in {t.date : t \in mine} : \A t \in mine : t.date <= d

Range(seq) == {seq[i] : i \in DOMAIN seq}

\* the provider's answer to GET /personal/statement/{account}/{from}
Statement(account, from) ==
    SelectSeq(ProviderItems, LAMBDA it : it.account = account /\ it.time >= from)

\* variant: a failed statement request ends the loop over the cards
SyncNextCardStopsAtFailure(p, fetched) ==
    /\ pc[p] = "sync_card"
    /\ IF req[p].cardsLeft = <<>>
       THEN /\ pc' = [pc EXCEPT ![p] = "idle"]
            /\ req' = [req EXCEPT ![p] = Idle]
            /\ last' = [NoCall EXCEPT !.op = "SyncUserData", !.user = req[p].user,
                                      !.result = "ok"]
       ELSE LET c == Head(req[p].cardsLeft) IN
            /\ last' = NoCall
            /\ IF fetched
               THEN /\ pc' = [pc EXCEPT ![p] = "sync_item"]
                    /\ req' = [req EXCEPT ![p].cardsLeft = Tail(req[p].cardsLeft),
                                          ![p].card = c,
                                          ![p].itemsLeft = Statement(c.row.account,
                                                                     Cursor(c.id)),
                                          ![p].fetched = @ @@ (c.id :>
                                              {it.id : it \in
                                                  Range(Statement(c.row.account,
                                                                  Cursor(c.id)))})]
               ELSE /\ req' = [req EXCEPT ![p].cardsLeft = <<>>,
                                          ![p].failed = @ \cup {c.id}]
                    /\ UNCHANGED pc
    /\ UNCHANGED <<cards, txs, nextTx, integrations, cats, opening>>

\* the loop of SyncUserData: the next card, its cursor and the statement
\* request, which the provider answers or fails (429, 401, 5xx, timeout)
SyncNextCard(p, fetched) ==
    /\ pc[p] = "sync_card"
    /\ IF req[p].cardsLeft = <<>>
       THEN /\ pc' = [pc EXCEPT ![p] = "idle"]
            /\ req' = [req EXCEPT ![p] = Idle]
            /\ last' = [NoCall EXCEPT !.op = "SyncUserData", !.user = req[p].user,
                                      !.result = "ok"]
       ELSE LET c == Head(req[p].cardsLeft) IN
            /\ last' = NoCall
            /\ IF fetched
               THEN /\ pc' = [pc EXCEPT ![p] = "sync_item"]
                    /\ req' = [req EXCEPT ![p].cardsLeft = Tail(req[p].cardsLeft),
                                          ![p].card = c,
                                          ![p].itemsLeft = Statement(c.row.account,
                                                                     Cursor(c.id)),
                                          ![p].fetched = @ @@ (c.id :>
                                              {it.id : it \in
                                                  Range(Statement(c.row.account,
                                                                  Cursor(c.id)))})]
               ELSE \* the error is logged; continue with the other cards
                    /\ req' = [req EXCEPT ![p].cardsLeft = Tail(req[p].cardsLeft),
                                          ![p].failed = @ \cup {c.id}]
                    /\ UNCHANGED pc
    /\ UNCHANGED <<cards, txs, nextTx, integrations, cats, opening>>

\* the per-item loop of syncCardTransactions: the lookup by monobank id and,
\* for an item not found, the conversion handed to the repository
SyncNextItem(p) ==
    /\ pc[p] = "sync_item"
    /\ last' = NoCall
    /\ IF req[p].itemsLeft = <<>>
       THEN /\ pc' = [pc EXCEPT ![p] = "sync_card"]
            /\ UNCHANGED req
       ELSE LET it == Head(req[p].itemsLeft) IN
            IF GetByMonobankID(it.id) # {}
            THEN /\ req' = [req EXCEPT ![p].itemsLeft = Tail(req[p].itemsLeft)]
                 /\ UNCHANGED pc
            ELSE /\ nextTx + InFlightInserts <= MaxImport
                 /\ pc' = [pc EXCEPT ![p] = "insert"]
                 /\ req' = [req EXCEPT ![p] =
                               [op |-> "SyncUserData", user |-> req[p].user,
                                token |-> req[p].token,
                                cardsLeft |-> req[p].cardsLeft, card |-> req[p].card,
                                itemsLeft |-> Tail(req[p].itemsLeft),
                                failed |-> req[p].failed, fetched |-> req[p].fetched,
                                tx |-> convertMonobankTransaction(it, req[p].card.id,
                                                                  req[p].card.row),
                                rcard |-> req[p].card.row]]
    /\ UNCHANGED <<cards, txs, nextTx, integrations, cats, opening>>

(***************************************************************************)
(* Initial states and specifications of the ledger                         *)
(***************************************************************************)

\* a manual card of user 1 and a card of user 1 that Connect created from
\* the provider account "acc1"; a category of user 1
ManualCard(b, l) ==
    [owner |-> 1, balance |-> b, creditLimit |-> l, currency |-> UAH,
     isManual |-> TRUE, account |-> ""]

ProviderCard ==
    [owner |-> 1, balance |-> 3, creditLimit |-> 0, currency |-> UAH,
     isManual |-> FALSE, account |-> "acc1"]

InitLedger ==
    /\ \E b \in 0..MaxBalance, l \in 0..1 :
          cards = (1 :> ManualCard(b, l)) @@ (2 :> ProviderCard)
    /\ txs = {}
    /\ nextTx = 1
    /\ integrations = {Integration(1, 1, "t1")}
    /\ cats = (1 :> [owner |-> 1, name |-> "food", type |-> "expense", parent |-> 0])
    /\ pc = [p \in Procs |-> "idle"]
    /\ req = [p \in Procs |-> Idle]
    /\ last = NoCall
    /\ opening = [c \in DOMAIN cards |-> cards[c].balance]

\* the requests a caller may send: the well-formed ones, and one request
\* for each way of being rejected before the credit-limit test
GoodCreate(type, amount, category) ==
    [card |-> 1, category |-> category, type |-> type, amount |-> amount,
     currency |-> UAH, description |-> "d", date |-> 0]

CreateInputs ==
    {GoodCreate(t, a, 0) : t \in Types, a \in 1..MaxAmount}
    \cup {GoodCreate("expense", 1, 1),
          GoodCreate("income", 1, 1),
          GoodCreate("expense", 1, MaxCats),
          GoodCreate("expense", 0, 0),
          GoodCreate("bogus", 1, 0),
          [GoodCreate("expense", 1, 0) EXCEPT !.card = 3],
          [GoodCreate("expense", 1, 0) EXCEPT !.currency = OtherCurrency],
          [GoodCreate("expense", 1, 0) EXCEPT !.description = ""]}

GoodUpdate(id, type, amount) ==
    [id |-> id, category |-> 0, type |-> type, amount |-> amount,
     currency |-> UAH, description |-> "d", balanceAfter |-> 0, date |-> Now]

UpdateInputs ==
    {GoodUpdate(id, "expense", MaxAmount) : id \in TxIds}
    \cup {GoodUpdate(id, "income", 1) : id \in TxIds}
    \cup {GoodUpdate(1, "expense", 0),
          [GoodUpdate(1, "income", 1) EXCEPT !.category = 1]}

\* one manual creation at a time
NextCreate ==
    \/ \E u \in Users, in \in CreateInputs : CreateTransaction(1, u, in)
    \/ RepoInsert(1)
    \/ RepoFirst(1)
    \/ RepoSave(1)

SpecCreate == InitLedger /\ [][NextCreate]_vars

\* one manual creation at a time, on a database whose statements may fail
NextCreateFail ==
    \/ NextCreate
    \/ RepoFail(1)

SpecCreateFail == InitLedger /\ [][NextCreateFail]_vars

\* one ledger request at a time
NextSeq ==
    \/ \E u \in Users, in \in CreateInputs : CreateTransaction(1, u, in)
    \/ RepoInsert(1)
    \/ RepoFirst(1)
    \/ RepoSave(1)
    \/ \E u \in Users, in \in UpdateInputs : UpdateTransaction(1, u, in)
    \/ \E u \in Users, id \in TxIds : DeleteTransaction(1, u, id)

SpecSeq == InitLedger /\ [][NextSeq]_vars

\* manual creations running in parallel, each on its own goroutine
NextConcCreate ==
    \E p \in Procs :
       \/ \E u \in Users, in \in CreateInputs : CreateTransaction(p, u, in)
       \/ RepoInsert(p)
       \/ RepoFirst(p)
       \/ RepoSave(p)

SpecConcCreate == InitLedger /\ [][NextConcCreate]_vars

\* ledger requests running in parallel
NextConc ==
    \E p \in Procs :
       \/ \E u \in Users, in \in CreateInputs : CreateTransaction(p, u, in)
       \/ RepoInsert(p)
       \/ RepoFirst(p)
       \/ RepoSave(p)
       \/ \E u \in Users, in \in UpdateInputs : UpdateTransaction(p, u, in)
       \/ \E u \in Users, id \in TxIds : DeleteTransaction(p, u, id)

SpecConc == InitLedger /\ [][NextConc]_vars

\* the webhook bodies the provider (or anyone) may post
WebhookPayloads ==
    {[type |-> "StatementItem", account |-> it.account, item |-> it] : it \in ItemSet}
    \cup {[type |-> "StatementItem", account |-> "unknown", item |-> ProviderItems[1]],
          [type |-> "Ping", account |-> "", item |-> ProviderItems[1]]}

\* imports by webhook and by polling, and ledger requests on the stored
\* rows, one request at a time
NextSync ==
    \/ \E u \in Users : CreateTransaction(1, u, GoodCreate("expense", 1, 0))
    \/ \E payload \in WebhookPayloads : HandleWebhook(1, payload)
    \/ \E u \in Users : SyncUserData(1, u)
    \/ \E fetched \in BOOLEAN : SyncNextCard(1, fetched)
    \/ SyncNextItem(1)
    \/ RepoInsert(1)
    \/ RepoFirst(1)
    \/ RepoSave(1)
    \/ \E u \in Users, id \in TxIds : UpdateTransaction(1, u, GoodUpdate(id, "income", 1))
    \/ \E u \in Users, id \in TxIds : DeleteTransaction(1, u, id)

SpecSync == InitLedger /\ [][NextSync]_vars

\* webhook deliveries to either HandleWebhook of the repository, one at a
\* time
NextWebhook ==
    \/ \E payload \in WebhookPayloads : HandleWebhook(1, payload)
    \/ \E payload \in WebhookPayloads : HandleWebhookApp(1, payload)
    \/ RepoInsert(1)
    \/ RepoFirst(1)
    \/ RepoSave(1)

SpecWebhook == InitLedger /\ [][NextWebhook]_vars

(***************************************************************************)
(* Properties of the ledger                                                *)
(***************************************************************************)

RECURSIVE SumDeltas(_)
SumDeltas(S) ==
    IF S = {} THEN 0
    ELSE LET t == CHOOSE x \in S : TRUE IN
         SignedDelta(t.type, t.amount) + SumDeltas(S \ {t})

TxsOf(c) == {t \in txs : t.card = c}

AllIdle == \A p \in Procs : pc[p] = "idle"

\* a request that passes every check before the credit-limit test
WellFormedCreate(user, in) ==
    /\ in.card \in DOMAIN cards
    /\ cards[in.card].owner = user
    /\ in.category # 0 => /\ in.category \in DOMAIN cats
                          /\ cats[in.category].owner = user
                          /\ cats[in.category].type = in.type
    /\ in.amount > 0
    /\ in.type \in Types
    /\ in.currency = cards[in.card].currency
    /\ in.description # ""

\* C1: when a CreateTransaction commits and no other request ran on the card
\* since the call started, the card's balance is the balance read at the
\* call plus the signed delta, and the stored row's balanceAfter is that
\* new balance.
C1_CreateMovesBalanceByDelta ==
    [][\A p \in Procs :
          (pc[p] = "save" /\ req[p].op = "CreateTransaction" /\ pc'[p] = "idle")
          => LET c == req[p].tx.card
                 d == SignedDelta(req[p].tx.type, req[p].tx.amount) IN
             /\ cards'[c].balance = req[p].scard.balance + d
             /\ \E t \in txs' \ txs : /\ t.id = req[p].tx.id
                                      /\ t.balanceAfter = cards'[c].balance]_vars

\* C1 witness: a transfer has been created and committed
C1_Witness ==
    /\ last.op = "CreateTransaction" /\ last.result = "ok" /\ last.type = "transfer"
    /\ \E t \in txs : t.id = last.id /\ cards[t.card].balance = opening[t.card] - t.amount

\* C2: once N concurrent CreateTransaction calls on a card have all
\* returned, the card's balance has moved by the sum of the signed deltas of
\* the transactions they stored.
C2_NoLostUpdate ==
    AllIdle => \A c \in DOMAIN cards :
                   cards[c].balance = opening[c] + SumDeltas(TxsOf(c))

\* C3: a card's balance never falls below minus its credit limit.
C3_CreditLimitRespected ==
    \A c \in DOMAIN cards : cards[c].balance >= 0 - cards[c].creditLimit

\* C4: a well-formed CreateTransaction whose signed delta would take the
\* balance below minus the credit limit returns InsufficientFunds, stores no
\* transaction and leaves every card as it was.
C4_OverLimitRejected ==
    [][\A p \in Procs, u \in Users, in \in CreateInputs :
          ( /\ pc[p] = "idle"
            /\ WellFormedCreate(u, in)
            /\ cards[in.card].balance + SignedDelta(in.type, in.amount)
                   < 0 - cards[in.card].creditLimit
            /\ CreateTransaction(p, u, in) )
          => /\ last'.op = "CreateTransaction"
             /\ last'.result = "InsufficientFunds"
             /\ pc'[p] = "idle"
             /\ txs' = txs /\ cards' = cards /\ nextTx' = nextTx]_vars

\* C4 witness: balance 1, credit limit 0, an expense of 2 was rejected
C4_Witness ==
    /\ last.op = "CreateTransaction" /\ last.result = "InsufficientFunds"
    /\ last.type = "expense" /\ last.amount = 2
    /\ cards[1].balance = 1 /\ cards[1].creditLimit = 0 /\ txs = {}

\* C5: a manual card's stored balance is its opening balance plus the sum
\* of the signed deltas of the transactions stored for it.
C5_BalanceIsSumOfTransactions ==
    \A c \in DOMAIN cards :
        cards[c].isManual => cards[c].balance = opening[c] + SumDeltas(TxsOf(c))

\* the stored row a returned UpdateTransaction or DeleteTransaction named
Named(t) == t.id = last'.id

\* C12: a successful UpdateTransaction moves the balance of the card by
\* the signed delta of the new type and amount minus that of the old ones,
\* in the step that rewrites the row.
C12_UpdateReappliesDelta ==
    [][(last'.op = "UpdateTransaction" /\ last'.result = "ok")
       => \A t \in txs : Named(t)
             => \E u \in txs' :
                   /\ u.id = t.id
                   /\ cards'[t.card].balance =
                         cards[t.card].balance + SignedDelta(u.type, u.amount)
                                               - SignedDelta(t.type, t.amount)]_vars

\* C13: a successful DeleteTransaction moves the balance of the card by
\* the negation of the signed delta of the deleted transaction.
C13_DeleteReversesDelta ==
    [][(last'.op = "DeleteTransaction" /\ last'.result = "ok")
       => \A t \in txs : Named(t)
             => cards'[t.card].balance =
                   cards[t.card].balance - SignedDelta(t.type, t.amount)]_vars

\* C14: every step either leaves the transactions and the cards as they
\* were, or stores one transaction and moves the balance of its card by its
\* signed delta; a creation that returns an error does the former.
C14_InsertAndBalanceTogether ==
    [][/\ \/ (txs' = txs /\ cards' = cards)
          \/ \E t \in txs' \ txs :
                /\ txs' = txs \cup {t}
                /\ cards' = [cards EXCEPT ![t.card].balance =
                                              @ + SignedDelta(t.type, t.amount)]
       /\ (last'.op = "CreateTransaction" /\ last'.result # "ok")
          => (txs' = txs /\ cards' = cards)]_vars

\* C14 witness: a creation failed after its insert and nothing of it is left
C14_Witness ==
    /\ last.op = "CreateTransaction" /\ last.result = "DatabaseError"
    /\ nextTx > 1 /\ txs = {}
    /\ \A c \in DOMAIN cards : cards[c].balance = opening[c]

\* C15: a CreateTransaction naming a stored category whose type is not the
\* type of the transaction returns an error without calling the
\* repository: no row is inserted and no card changes.
C15_CategoryTypeMismatchRejected ==
    [][\A p \in Procs, u \in Users, in \in CreateInputs :
          (/\ pc[p] = "idle"
           /\ in.category \in DOMAIN cats
           /\ cats[in.category].type # in.type
           /\ CreateTransaction(p, u, in))
          => /\ last'.op = "CreateTransaction" /\ last'.result # "ok"
             /\ pc'[p] = "idle"
             /\ txs' = txs /\ cards' = cards /\ nextTx' = nextTx]_vars

\* C15 witness: an income on the user's own card was refused for naming
\* the user's expense category
C15_Witness ==
    /\ last.op = "CreateTransaction" /\ last.result = "CategoryTypeMismatch"
    /\ last.user = 1 /\ last.type = "income"
    /\ cats[1].type = "expense"
    /\ txs = {}

(***************************************************************************)
(* Properties of the imports                                               *)
(***************************************************************************)

Imported(t) == t.monobankID # ""

\* C6: a stored transaction with a non-empty externalID is never changed or
\* removed, and an UpdateTransaction or DeleteTransaction naming it returns
\* an error and leaves the transactions and the cards as they were.
C6_ImportedIsImmutable ==
    [][\A t \in txs :
          Imported(t)
          => /\ t \in txs'
             /\ (last'.op \in {"UpdateTransaction", "DeleteTransaction"}
                 /\ last'.id = t.id)
                => (last'.result # "ok" /\ txs' = txs /\ cards' = cards)]_vars

\* C6 witness: an update of an imported transaction was refused while a
\* manual transaction is stored next to it
C6_Witness ==
    /\ last.op = "UpdateTransaction" /\ last.result = "CannotModifyExternal"
    /\ \E t \in txs : t.id = last.id /\ Imported(t)
    /\ \E t \in txs : ~Imported(t)

\* C7: an external transaction ingested once by polling and once by webhook
\* is stored once.
C7_PollAndWebhookStoreOnce ==
    \A t1, t2 \in txs :
        (Imported(t1) /\ t1.monobankID = t2.monobankID
         /\ t1.via = "SyncUserData" /\ t2.via = "HandleWebhook") => FALSE

\* C8: a StatementItem payload delivered twice to HandleWebhook is stored
\* once, and the second delivery leaves the card balance as it was.
C8_WebhookRetryStoresOnce ==
    \A t1, t2 \in txs :
        (Imported(t1) /\ t1.monobankID = t2.monobankID
         /\ t1.via = "HandleWebhook" /\ t2.via = "HandleWebhook") => t1 = t2

\* C19: a webhook whose type is not "StatementItem" is answered without
\* error by HandleWebhook and changes no card and no transaction.
C19_UnknownWebhookTypeIgnored ==
    [][\A p \in Procs, payload \in WebhookPayloads :
          (/\ payload.type # "StatementItem"
           /\ HandleWebhook(p, payload) \/ HandleWebhookApp(p, payload))
          => (last'.result = "ok" /\ cards' = cards /\ txs' = txs)]_vars

(***************************************************************************)
(* categoryRepository and categoryService.  A category id 0 is uuid.Nil,   *)
(* a parent 0 is a nil ParentID.  The calls run one at a time and each is  *)
(* one step.                                                               *)
(***************************************************************************)

CatTypes == {"expense", "income"}

\* the names the requests use, one per category id
CatNames == [k \in CatIds |-> <<"food", "rent", "pay", "misc", "more">>[k]]

\* the owner the requests give to the category of each id
CatOwner(k) == IF k = MaxCats THEN 2 ELSE 1

CatCall(op, result, id) == [NoCall EXCEPT !.op = op, !.result = result, !.id = id]

\* categoryService.validateCategory
validateCategory(category) ==
    category.user # 0 /\ category.name # "" /\ category.type # ""

\* uuid.New(): an id that nothing in the table holds or mentions; the model
\* draws the id whose name the request carries
NewUUID(name) == CHOOSE k \in CatIds : CatNames[k] = name

Fresh(id) ==
    /\ id \notin DOMAIN cats
    /\ \A c \in DOMAIN cats : cats[c].parent # id

\* categoryService.Create with categoryRepository.Create: the parent of the
\* new row is stored as it was passed
CreateCategoryResult(category) ==
    IF ~validateCategory(category) THEN "InvalidCategoryData"
    ELSE IF category.user \notin Users THEN "UserNotFound"
    ELSE IF \E c \in DOMAIN cats : cats[c].owner = category.user
                                  /\ cats[c].name = category.name
         THEN "CategoryAlreadyExists"
    ELSE IF category.id # 0 /\ category.id \in DOMAIN cats THEN "DatabaseOperation"
    ELSE "ok"

CreateCategory(category) ==
    LET result == CreateCategoryResult(category)
        id == IF category.id = 0 THEN NewUUID(category.name) ELSE category.id
    IN /\ (result = "ok" /\ category.id = 0) => Fresh(id)
       /\ cats' = IF result = "ok"
                  THEN cats @@ (id :> [owner |-> category.user, name |-> category.name,
                                       type |-> category.type, parent |-> category.parent])
                  ELSE cats
       /\ last' = CatCall("CreateCategory", result, IF result = "ok" THEN id ELSE category.id)
       /\ UNCHANGED <<cards, txs, nextTx, integrations, pc, req, opening>>

\* categoryRepository.checkCategoryCircularReference: TRUE when it returns
\* an error.  `visited` is the map of the code.
RECURSIVE checkCategoryCircularReference(_, _, _)
checkCategoryCircularReference(categoryID, current, visited) ==
    IF current = categoryID THEN TRUE
    ELSE IF current \notin DOMAIN cats THEN FALSE
    ELSE IF cats[current].parent = 0 THEN FALSE
    ELSE IF cats[current].parent \in visited \cup {current} THEN TRUE
    ELSE checkCategoryCircularReference(categoryID, cats[current].parent,
                                        visited \cup {current})

\* categoryRepository.Update: the error it returns, or "ok"
RepoUpdateCategoryResult(category) ==
    IF category.parent # 0 /\ category.parent \notin DOMAIN cats THEN "RecordNotFound"
    ELSE IF category.parent # 0 /\ cats[category.parent].owner # category.user
         THEN "ParentOfOtherUser"
    ELSE IF category.parent # 0
            /\ checkCategoryCircularReference(category.id, category.parent, {})
         THEN "CircularReference"
    ELSE IF category.id \notin DOMAIN cats THEN "RecordNotFound"
    ELSE "ok"

\* the Updates() of categoryRepository.Update: name, parent_id and type
RepoUpdatedCategories(category) ==
    [cats EXCEPT ![category.id] = [@ EXCEPT !.name = category.name,
                                            !.parent = category.parent,
                                            !.type = category.type]]

\* categoryService.Update
UpdateCategoryResult(category) ==
    IF ~validateCategory(category) THEN "InvalidCategoryData"
    ELSE IF category.id \notin DOMAIN cats THEN "CategoryNotFound"
    ELSE IF cats[category.id].owner # category.user THEN "Unauthorized"
    ELSE IF RepoUpdateCategoryResult(category) # "ok" THEN "DatabaseOperation"
    ELSE "ok"

UpdateCategory(category) ==
    LET result == UpdateCategoryResult(category) IN
    /\ cats' = IF result = "ok" THEN RepoUpdatedCategories(category) ELSE cats
    /\ last' = CatCall("UpdateCategory", result, category.id)
    /\ UNCHANGED <<cards, txs, nextTx, integrations, pc, req, opening>>

\* categoryService.Delete with categoryRepository.Delete: the children lose
\* their parent, the row goes, and the schema's ON DELETE SET NULL clears
\* the category of the transactions that had it
DeleteCategory(id) ==
    LET result == IF id \notin DOMAIN cats THEN "CategoryNotFound" ELSE "ok" IN
    /\ cats' = IF result = "ok"
               THEN [c \in DOMAIN cats \ {id} |->
                        IF cats[c].parent = id THEN [cats[c] EXCEPT !.parent = 0]
                        ELSE cats[c]]
               ELSE cats
    /\ txs' = IF result = "ok"
              THEN {[t EXCEPT !.category = IF @ = id THEN 0 ELSE @] : t \in txs}
              ELSE txs
    /\ last' = CatCall("DeleteCategory", result, id)
    /\ UNCHANGED <<cards, nextTx, integrations, pc, req, opening>>

\* categoryService.wouldCreateCircularReference, the loop over the
\* ancestors of the new parent.  The loop keeps no record of the rows it
\* has read: after more reads than there are rows it is on a row it has
\* read before and repeats itself for ever ("NoReturn").
RECURSIVE AncestorWalk(_, _, _)
AncestorWalk(categoryID, current, reads) ==
    IF cats[current].parent = 0 THEN "false"
    ELSE IF cats[current].parent = categoryID THEN "true"
    ELSE IF cats[current].parent \notin DOMAIN cats THEN "false"
    ELSE IF reads > Cardinality(DOMAIN cats) THEN "NoReturn"
    ELSE AncestorWalk(categoryID, cats[current].parent, reads + 1)

wouldCreateCircularReference(categoryID, newParentID) ==
    IF categoryID = newParentID THEN "true"
    ELSE IF newParentID \notin DOMAIN cats THEN "false"
    ELSE AncestorWalk(categoryID, newParentID, 1)

\* categoryService.MoveCategory
MoveCategoryResult(categoryID, newParentID) ==
    IF categoryID \notin DOMAIN cats THEN "CategoryNotFound"
    ELSE IF newParentID # 0 /\ newParentID \notin DOMAIN cats THEN "CategoryNotFound"
    ELSE IF newParentID # 0 /\ cats[newParentID].owner # cats[categoryID].owner
         THEN "Unauthorized"
    ELSE IF newParentID # 0
            /\ wouldCreateCircularReference(categoryID, newParentID) = "true"
         THEN "InvalidCategoryData"
    ELSE IF newParentID # 0
            /\ wouldCreateCircularReference(categoryID, newParentID) = "NoReturn"
         THEN "NoReturn"
    ELSE LET category == [id |-> categoryID, user |-> cats[categoryID].owner,
                          name |-> cats[categoryID].name,
                          type |-> cats[categoryID].type, parent |-> newParentID]
         IN IF RepoUpdateCategoryResult(category) # "ok" THEN "DatabaseOperation"
            ELSE "ok"

MoveCategory(categoryID, newParentID) ==
    LET result == MoveCategoryResult(categoryID, newParentID) IN
    /\ cats' = IF result = "ok"
               THEN [cats EXCEPT ![categoryID].parent = newParentID]
               ELSE cats
    /\ last' = CatCall("MoveCategory", result, categoryID)
    /\ UNCHANGED <<cards, txs, nextTx, integrations, pc, req, opening>>

\* the category requests: each id with its name and owner, the id given or
\* left to the service, every type and every parent; and three bad ones
CategoryRequests ==
    {[id |-> IF given THEN k ELSE 0, user |-> CatOwner(k), name |-> CatNames[k],
      type |-> t, parent |-> q] :
        k \in CatIds, given \in BOOLEAN, t \in CatTypes, q \in 0..MaxCats}

BadCategoryRequests ==
    {[id |-> 1, user |-> 1, name |-> "", type |-> "expense", parent |-> 0],
     [id |-> 1, user |-> 0, name |-> CatNames[1], type |-> "expense", parent |-> 0],
     [id |-> 1, user |-> 1 + Cardinality(Users), name |-> CatNames[1],
      type |-> "expense", parent |-> 0]}

CategoryUpdates ==
    {[id |-> k, user |-> u, name |-> CatNames[k], type |-> t, parent |-> q] :
        k \in CatIds, u \in Users, t \in CatTypes, q \in 0..MaxCats}

\* one root category, no transactions
InitCat ==
    /\ cards = (1 :> ManualCard(0, 0))
    /\ txs = {}
    /\ nextTx = 1
    /\ integrations = {}
    /\ cats = (1 :> [owner |-> CatOwner(1), name |-> CatNames[1],
                     type |-> "expense", parent |-> 0])
    /\ pc = [p \in Procs |-> "idle"]
    /\ req = [p \in Procs |-> Idle]
    /\ last = NoCall
    /\ opening = [c \in DOMAIN cards |-> cards[c].balance]

NextCat ==
    \/ \E category \in CategoryRequests \cup BadCategoryRequests : CreateCategory(category)
    \/ \E category \in CategoryUpdates \cup BadCategoryRequests : UpdateCategory(category)
    \/ \E id \in CatIds : DeleteCategory(id)
    \/ \E c \in CatIds, p \in 0..MaxCats : MoveCategory(c, p)

SpecCat == InitCat /\ [][NextCat]_vars

(***************************************************************************)
(* Properties of the category hierarchy                                    *)
(***************************************************************************)

\* the categories met by following parent from c, c itself not counted
\* unless the chain comes back to it
RECURSIVE Chain(_, _)
Chain(c, seen) ==
    IF c \notin DOMAIN cats \/ cats[c].parent = 0 \/ cats[c].parent \in seen THEN seen
    ELSE Chain(cats[c].parent, seen \cup {cats[c].parent})

Ancestors(c) == Chain(c, {})

IsDescendant(p, c) == c \in Ancestors(p)

\* C9: MoveCategory(c, p) on stored categories is refused and leaves every
\* row as it was when p = c or p is a descendant of c; it returns success
\* with c's parent set to p when p has c's owner and is neither.
C9_MoveRejectsCyclesOnly ==
    [][\A c, p \in CatIds :
          (c \in DOMAIN cats /\ p \in DOMAIN cats /\ MoveCategory(c, p))
          => IF p = c \/ IsDescendant(p, c)
             THEN last'.result # "ok" /\ cats' = cats
             ELSE (cats[p].owner = cats[c].owner)
                  => (last'.result = "ok" /\ cats'[c].parent = p)]_vars

\* C10: no category is among its own ancestors: every parent chain ends.
C10_ParentChainsTerminate ==
    \A c \in DOMAIN cats : c \notin Ancestors(c)

\* C20: DeleteCategory removes the node and clears the parent of each of its
\* direct children in one step, and in every reachable state the parent of
\* every category is either absent or an existing category.
C20_NoDanglingParent ==
    /\ [](\A c \in DOMAIN cats : cats[c].parent = 0 \/ cats[c].parent \in DOMAIN cats)
    /\ [][\A id \in CatIds :
            (id \in DOMAIN cats /\ DeleteCategory(id))
            => /\ DOMAIN cats' = DOMAIN cats \ {id}
               /\ \A c \in DOMAIN cats' :
                     cats'[c].parent = IF cats[c].parent = id THEN 0
                                       ELSE cats[c].parent]_vars

\* C21: in every reachable state every category whose parent is stored has
\* the owner and the type of that parent.
C21_ParentSameOwnerAndType ==
    \A c \in DOMAIN cats :
        (cats[c].parent # 0 /\ cats[c].parent \in DOMAIN cats)
        => /\ cats[cats[c].parent].owner = cats[c].owner
           /\ cats[cats[c].parent].type = cats[c].type

\* C23: every MoveCategory call on stored categories returns, and when the
\* ancestor chain of the candidate parent comes back to a category it has
\* already passed, the move is refused.
C23_MoveTerminates ==
    [][\A c, p \in CatIds :
          (c \in DOMAIN cats /\ p \in DOMAIN cats /\ MoveCategory(c, p))
          => /\ last'.result # "NoReturn"
             /\ (\E a \in Ancestors(p) \cup {p} : a \in Ancestors(a))
                => (last'.result # "ok" /\ cats' = cats)]_vars

(***************************************************************************)
(* Polling a user who has two provider cards                               *)
(***************************************************************************)

\* the card Connect created from the provider account "acc2"
SecondProviderCard ==
    [owner |-> 1, balance |-> 1, creditLimit |-> 0, currency |-> UAH,
     isManual |-> FALSE, account |-> "acc2"]

InitPoll ==
    /\ cards = (1 :> ManualCard(0, 0)) @@ (2 :> ProviderCard) @@ (3 :> SecondProviderCard)
    /\ txs = {}
    /\ nextTx = 1
    /\ integrations = {Integration(1, 1, "t1")}
    /\ cats = (1 :> [owner |-> 1, name |-> "food", type |-> "expense", parent |-> 0])
    /\ pc = [p \in Procs |-> "idle"]
    /\ req = [p \in Procs |-> Idle]
    /\ last = NoCall
    /\ opening = [c \in DOMAIN cards |-> cards[c].balance]

\* SyncUserData calls and webhook deliveries, one at a time; each
\* statement request may fail
NextPoll ==
    \/ \E u \in Users : SyncUserData(1, u)
    \/ \E fetched \in BOOLEAN : SyncNextCard(1, fetched)
    \/ SyncNextItem(1)
    \/ RepoInsert(1)
    \/ RepoFirst(1)
    \/ RepoSave(1)
    \/ \E payload \in WebhookPayloads : HandleWebhook(1, payload)

SpecPoll == InitPoll /\ [][NextPoll]_vars

\* C11: when SyncUserData returns it returns without error, every provider
\* card of the user was either fetched or logged as failed, and every item
\* fetched for a card is stored on that card, whatever failed for the others.
C11_FailedCardDoesNotStopOthers ==
    [][\A p \in Procs :
          (pc[p] = "sync_card" /\ req[p].cardsLeft = <<>> /\ pc'[p] = "idle")
          => /\ last'.op = "SyncUserData" /\ last'.result = "ok"
             /\ DOMAIN req[p].fetched \cup req[p].failed = SyncCards(req[p].user)
             /\ \A c \in DOMAIN req[p].fetched : \A m \in req[p].fetched[c] :
                   \E t \in txs' : t.card = c /\ t.monobankID = m]_vars

\* C11 witness: the loop is over, the fetch for card 2 failed, the items
\* of card 3 are stored
C11_Witness ==
    /\ pc[1] = "sync_card" /\ req[1].cardsLeft = <<>>
    /\ req[1].failed = {2}
    /\ 3 \in DOMAIN req[1].fetched /\ req[1].fetched[3] # {}
    /\ \A m \in req[1].fetched[3] : \E t \in txs : t.card = 3 /\ t.monobankID = m
    /\ \A t \in txs : t.card # 2

(***************************************************************************)
(* MonobankService.Connect and Disconnect.  Connect is a sequence of       *)
(* separate statements (no database transaction); Disconnect runs          *)
(* monobankIntegrationRepository.Delete, one database transaction.         *)
(***************************************************************************)

\* the tokens a caller may present
Tokens == {"t1", "t9", "bad"}

\* the provider's answer to GET /personal/client-info: the accounts of the
\* client the token belongs to; the provider answers 401 for any other token
ClientAccounts(token) ==
    IF token = "t1"
    THEN << [id |-> "acc1", balance |-> 3, creditLimit |-> 1, currency |-> UAH],
            [id |-> "acc2", balance |-> 1, creditLimit |-> 0, currency |-> UAH] >>
    ELSE IF token = "t9"
    THEN << [id |-> "acc9", balance |-> 2, creditLimit |-> 0, currency |-> UAH] >>
    ELSE << >>

TokenValid(token) == token \in {"t1", "t9"}

\* gen_random_uuid(): an id no row of the table holds; the model takes the
\* smallest
NewId(used) == MinOf((1..(Cardinality(used) + 1)) \ used)

\* the card Connect builds from an account
AccountCard(user, account) ==
    [owner |-> user, balance |-> account.balance, creditLimit |-> account.creditLimit,
     currency |-> account.currency, isManual |-> FALSE, account |-> account.id]

\* cardRepository.Update: the columns of the Updates(...) map
UpdatedCard(row, card) ==
    [row EXCEPT !.balance = card.balance, !.creditLimit = card.creditLimit,
                !.currency = card.currency, !.account = card.account]

ConnectReturn(p, result) ==
    /\ pc' = [pc EXCEPT ![p] = "idle"]
    /\ req' = [req EXCEPT ![p] = Idle]
    /\ last' = [NoCall EXCEPT !.op = "Connect", !.result = result, !.user = req[p].user]

\* Connect: the user lookup, the client-info request and
\* monoRepo.GetByUserID
Connect(p, user, token) ==
    /\ pc[p] = "idle"
    /\ IF user \notin Users \/ ~TokenValid(token)
       THEN /\ last' = [NoCall EXCEPT !.op = "Connect", !.user = user,
                           !.result = IF user \notin Users THEN "UserNotFound"
                                      ELSE "MonobankTokenInvalid"]
            /\ UNCHANGED <<pc, req>>
       ELSE /\ pc' = [pc EXCEPT ![p] = "conn_integration"]
            /\ req' = [req EXCEPT ![p] =
                          [op |-> "Connect", user |-> user, token |-> token,
                           existing |-> IF IntegrationsOf(user) = {} THEN 0
                                        ELSE FirstIntegration(user).id,
                           accountsLeft |-> ClientAccounts(token), found |-> 0]]
            /\ last' = NoCall
    /\ UNCHANGED <<cards, txs, nextTx, integrations, cats, opening>>

\* Connect: monoRepo.Update of the row found, or the lookup that opens
\* monobankIntegrationRepository.Create
ConnectIntegration(p) ==
    /\ pc[p] = "conn_integration"
    /\ IF req[p].existing # 0
       THEN IF \E i \in integrations : i.id = req[p].existing
            THEN /\ integrations' =
                       {IF i.id = req[p].existing THEN [i EXCEPT !.token = req[p].token]
                        ELSE i : i \in integrations}
                 /\ pc' = [pc EXCEPT ![p] = "conn_card"]
                 /\ UNCHANGED req
                 /\ last' = NoCall
            ELSE \* RowsAffected = 0
                 /\ ConnectReturn(p, "DatabaseOperation")
                 /\ UNCHANGED integrations
       ELSE IF IntegrationsOf(req[p].user) # {}
            THEN /\ ConnectReturn(p, "DatabaseOperation")
                 /\ UNCHANGED integrations
            ELSE /\ pc' = [pc EXCEPT ![p] = "conn_insert"]
                 /\ UNCHANGED <<req, integrations>>
                 /\ last' = NoCall
    /\ UNCHANGED <<cards, txs, nextTx, cats, opening>>

\* variant: the table has no UNIQUE(user_id)
InsertIntegrationNotUnique(p) ==
    /\ pc[p] = "conn_insert"
    /\ integrations' = integrations \cup
                          {Integration(NewId({i.id : i \in integrations}),
                                       req[p].user, req[p].token)}
    /\ pc' = [pc EXCEPT ![p] = "conn_card"]
    /\ UNCHANGED req
    /\ last' = NoCall
    /\ UNCHANGED <<cards, txs, nextTx, cats, opening>>

\* monobankIntegrationRepository.Create: the INSERT, under UNIQUE(user_id)
InsertIntegration(p) ==
    /\ pc[p] = "conn_insert"
    /\ IF IntegrationsOf(req[p].user) # {}
       THEN /\ ConnectReturn(p, "DatabaseOperation")
            /\ UNCHANGED integrations
       ELSE /\ integrations' = integrations \cup
                                  {Integration(NewId({i.id : i \in integrations}),
                                               req[p].user, req[p].token)}
            /\ pc' = [pc EXCEPT ![p] = "conn_card"]
            /\ UNCHANGED req
            /\ last' = NoCall
    /\ UNCHANGED <<cards, txs, nextTx, cats, opening>>

\* Connect, the loop over the accounts: cardRepo.GetByMonobankAccountID
ConnectCardLookup(p) ==
    /\ pc[p] = "conn_card"
    /\ IF req[p].accountsLeft = <<>>
       THEN ConnectReturn(p, "ok")
       ELSE /\ pc' = [pc EXCEPT ![p] = "conn_card_write"]
            /\ req' = [req EXCEPT ![p].found =
                          LET found == GetByMonobankAccountID(Head(req[p].accountsLeft).id)
                          IN IF found = {} THEN 0 ELSE MinOf(found)]
            /\ last' = NoCall
    /\ UNCHANGED <<cards, txs, nextTx, integrations, cats, opening>>

\* variant: a card is created for every account, found or not
ConnectCardWriteAlwaysCreates(p) ==
    /\ pc[p] = "conn_card_write"
    /\ cards' = cards @@ (NewId(DOMAIN cards) :>
                            AccountCard(req[p].user, Head(req[p].accountsLeft)))
    /\ pc' = [pc EXCEPT ![p] = "conn_card"]
    /\ req' = [req EXCEPT ![p].accountsLeft = Tail(req[p].accountsLeft)]
    /\ last' = NoCall
    /\ UNCHANGED <<txs, nextTx, integrations, cats, opening>>

\* Connect, the loop over the accounts: cardRepo.Update of the card found,
\* cardRepo.Create otherwise
ConnectCardWrite(p) ==
    /\ pc[p] = "conn_card_write"
    /\ LET card == AccountCard(req[p].user, Head(req[p].accountsLeft)) IN
       IF req[p].found # 0 /\ req[p].found \notin DOMAIN cards
       THEN \* RowsAffected = 0
            /\ ConnectReturn(p, "DatabaseOperation")
            /\ UNCHANGED cards
       ELSE /\ cards' = IF req[p].found # 0
                        THEN [cards EXCEPT ![req[p].found] = UpdatedCard(@, card)]
                        ELSE cards @@ (NewId(DOMAIN cards) :> card)
            /\ pc' = [pc EXCEPT ![p] = "conn_card"]
            /\ req' = [req EXCEPT ![p].accountsLeft = Tail(req[p].accountsLeft)]
            /\ last' = NoCall
    /\ UNCHANGED <<txs, nextTx, integrations, cats, opening>>

\* the cards monobankIntegrationRepository.Delete removes
DisconnectedCards(user) ==
    {c \in DOMAIN cards : cards[c].owner = user /\ ~cards[c].isManual}

\* variant: every card of the user goes, manual ones included
DisconnectAllCards(p, user) ==
    /\ pc[p] = "idle"
    /\ IF IntegrationsOf(user) = {}
       THEN /\ last' = [NoCall EXCEPT !.op = "Disconnect", !.user = user,
                           !.result = "IntegrationNotFound"]
            /\ UNCHANGED <<cards, txs, integrations>>
       ELSE LET gone == {c \in DOMAIN cards : cards[c].owner = user} IN
            /\ txs' = {t \in txs : t.card \notin gone}
            /\ cards' = [c \in DOMAIN cards \ gone |-> cards[c]]
            /\ integrations' = integrations \ IntegrationsOf(user)
            /\ last' = [NoCall EXCEPT !.op = "Disconnect", !.user = user,
                           !.result = "ok"]
    /\ UNCHANGED <<nextTx, cats, pc, req, opening>>

\* MonobankService.Disconnect with monobankIntegrationRepository.Delete
Disconnect(p, user) ==
    /\ pc[p] = "idle"
    /\ IF IntegrationsOf(user) = {}
       THEN /\ last' = [NoCall EXCEPT !.op = "Disconnect", !.user = user,
                           !.result = "IntegrationNotFound"]
            /\ UNCHANGED <<cards, txs, integrations>>
       ELSE /\ txs' = {t \in txs : t.card \notin DisconnectedCards(user)}
            /\ cards' = [c \in DOMAIN cards \ DisconnectedCards(user) |-> cards[c]]
            /\ integrations' = integrations \ IntegrationsOf(user)
            /\ last' = [NoCall EXCEPT !.op = "Disconnect", !.user = user,
                           !.result = "ok"]
    /\ UNCHANGED <<nextTx, cats, pc, req, opening>>

\* a stored transaction of the initial state
InitialTx(id, card, owner, monobankID) ==
    [id |-> id, card |-> card, owner |-> owner, category |-> 0, type |-> "income",
     amount |-> 1, currency |-> UAH, description |-> "d", balanceAfter |-> 1,
     date |-> 1, monobankID |-> monobankID,
     via |-> IF monobankID = "" THEN "CreateTransaction" ELSE "SyncUserData"]

\* two users, each with a manual card, a provider card and an integration;
\* one transaction on every card
InitConnect ==
    /\ cards = (1 :> ManualCard(1, 0)) @@ (2 :> ProviderCard)
               @@ (3 :> [ManualCard(1, 0) EXCEPT !.owner = 2])
               @@ (4 :> [owner |-> 2, balance |-> 2, creditLimit |-> 0,
                         currency |-> UAH, isManual |-> FALSE, account |-> "acc9"])
    /\ txs = {InitialTx(1, 1, 1, ""), InitialTx(2, 2, 1, "m1"),
              InitialTx(3, 3, 2, ""), InitialTx(4, 4, 2, "m9")}
    /\ nextTx = 1 + Cardinality(txs)
    /\ integrations = {Integration(1, 1, "t1"), Integration(2, 2, "t9")}
    /\ cats = (1 :> [owner |-> 1, name |-> "food", type |-> "expense", parent |-> 0])
    /\ pc = [p \in Procs |-> "idle"]
    /\ req = [p \in Procs |-> Idle]
    /\ last = NoCall
    /\ opening = [c \in DOMAIN cards |-> cards[c].balance]

\* Connect and Disconnect calls, one at a time
NextConnectSeq ==
    \/ \E u \in Users, token \in Tokens : Connect(1, u, token)
    \/ ConnectIntegration(1)
    \/ InsertIntegration(1)
    \/ ConnectCardLookup(1)
    \/ ConnectCardWrite(1)
    \/ \E u \in Users : Disconnect(1, u)

SpecConnectSeq == InitConnect /\ [][NextConnectSeq]_vars

\* Connect calls of user 2 with the token of that user's bank client, and
\* Disconnect calls of user 2, running in parallel
NextConnect ==
    \E p \in Procs :
       \/ Connect(p, 2, "t9")
       \/ ConnectIntegration(p)
       \/ InsertIntegration(p)
       \/ ConnectCardLookup(p)
       \/ ConnectCardWrite(p)
       \/ Disconnect(p, 2)

SpecConnect == InitConnect /\ [][NextConnect]_vars

(***************************************************************************)
(* Properties of Connect and Disconnect                                    *)
(***************************************************************************)

\* C16: a successful Disconnect removes, in one step, the integration of
\* the owner, the owner's non-manual cards and the transactions on them; every
\* other card, transaction and integration is as it was.
C16_DisconnectRemovesProviderData ==
    [][\A u \in Users :
          (last'.op = "Disconnect" /\ last'.user = u /\ last'.result = "ok")
          => LET gone == {c \in DOMAIN cards : cards[c].owner = u /\ ~cards[c].isManual}
             IN /\ DOMAIN cards' = DOMAIN cards \ gone
                /\ \A c \in DOMAIN cards' : cards'[c] = cards[c]
                /\ txs' = {t \in txs : t.card \notin gone}
                /\ integrations' = {i \in integrations : i.owner # u}
                /\ integrations' # integrations]_vars

\* C16 witness: user 1 is disconnected; the manual card of user 1 and the
\* cards of user 2 are stored with their transactions
C16_Witness ==
    /\ last.op = "Disconnect" /\ last.result = "ok" /\ last.user = 1
    /\ DOMAIN cards = {1, 3, 4}
    /\ {t.card : t \in txs} = {1, 3, 4}
    /\ {i.owner : i \in integrations} = {2}

\* the external account ids the provider knows
AccountIds ==
    UNION {{account.id : account \in Range(ClientAccounts(token))} : token \in Tokens}

\* C17: at most one card is stored per external account id; and the write
\* Connect makes for an account updates the card that has the account id,
\* which keeps its id, when there is one, and adds one card otherwise.
C17_ConnectUpsertsCards ==
    /\ [](\A a \in AccountIds : Cardinality(GetByMonobankAccountID(a)) <= 1)
    /\ [][\A p \in Procs :
            (pc[p] = "conn_card_write" /\ pc'[p] = "conn_card")
            => LET account == Head(req[p].accountsLeft)
                   before == GetByMonobankAccountID(account.id)
               IN IF before # {}
                  THEN /\ DOMAIN cards' = DOMAIN cards
                       /\ \A c \in before : /\ cards'[c].account = account.id
                                            /\ cards'[c].balance = account.balance
                  ELSE \E new \in DOMAIN cards' \ DOMAIN cards :
                          /\ DOMAIN cards' = DOMAIN cards \cup {new}
                          /\ cards'[new].account = account.id
                          /\ cards'[new].owner = req[p].user]_vars

\* C17 witness: user 1 has connected twice with the same token; the two
\* accounts have one card each, the card of acc1 being the one it was
C17_Witness ==
    /\ last.op = "Connect" /\ last.result = "ok" /\ last.user = 1
    /\ GetByMonobankAccountID("acc1") = {2}
    /\ cards[2].creditLimit = 1
    /\ Cardinality(GetByMonobankAccountID("acc2")) = 1
    /\ Integration(1, 1, "t1") \in integrations
    /\ Cardinality(DOMAIN cards) = 5

\* C18: no owner has two rows in monobank_integrations.
C18_OneIntegrationPerOwner ==
    \A u \in Users : Cardinality(IntegrationsOf(u)) <= 1

\* C18 witness: of two Connect calls for one owner that both found no
\* integration, one has inserted the row and the other was refused
C18_Witness ==
    \E p, q \in Procs :
       /\ p # q
       /\ pc[p] \in {"conn_card", "conn_card_write"}
       /\ req[p].existing = 0
       /\ pc[q] = "idle"
       /\ last.op = "Connect" /\ last.result = "DatabaseOperation"
       /\ last.user = req[p].user
       /\ Cardinality(IntegrationsOf(last.user)) = 1

(***************************************************************************)
(* convertMonobankTransaction on every statement item                      *)
(***************************************************************************)

\* the statement items the provider may send: every signed amount, zero
\* included
StatementItems ==
    {[id |-> m, account |-> "acc1", time |-> t, amount |-> a, balance |-> b,
      currency |-> c, description |-> "x"] :
        m \in {"m1", "m2"}, t \in 1..2, a \in (0 - MaxAmount)..MaxAmount,
        b \in 0..MaxBalance, c \in {UAH, OtherCurrency}}

InitConvert == InitLedger

\* one call of convertMonobankTransaction for an item and a provider card;
\* the item and the transaction it returns are kept in req
Convert(p, monoTx, cardId) ==
    /\ ~cards[cardId].isManual
    /\ req' = [req EXCEPT ![p] =
                  [op |-> "convertMonobankTransaction", item |-> monoTx,
                   tx |-> convertMonobankTransaction(monoTx, cardId, cards[cardId])]]
    /\ UNCHANGED <<cards, txs, nextTx, integrations, cats, pc, last, opening>>

NextConvert ==
    \E monoTx \in StatementItems, cardId \in DOMAIN cards : Convert(1, monoTx, cardId)

SpecConvert == InitConvert /\ [][NextConvert]_vars

\* C22: the converted transaction stores the absolute value of the item's
\* signed amount, is an expense when the amount is negative and an income
\* otherwise (zero included), and is never a transfer.
C22_ConvertedTypeAndAmount ==
    \A p \in Procs :
        req[p].op = "convertMonobankTransaction"
        => /\ req[p].tx.amount >= 0
           /\ req[p].tx.amount \in {req[p].item.amount, 0 - req[p].item.amount}
           /\ req[p].tx.type = IF req[p].item.amount < 0 THEN "expense" ELSE "income"
           /\ req[p].tx.type # "transfer"

(***************************************************************************)
(* Two SyncUserData runs of one user at the same time                      *)
(***************************************************************************)

\* the scheduler's run and a request of the user overlap; the provider
\* answers every statement request
NextSyncConc ==
    \E p \in Procs :
       \/ SyncUserData(p, 1)
       \/ SyncNextCard(p, TRUE)
       \/ SyncNextItem(p)
       \/ RepoInsert(p)
       \/ RepoFirst(p)
       \/ RepoSave(p)

SpecSyncConc == InitLedger /\ [][NextSyncConc]_vars

\* the monobank ids of the rows stored for a card
ImportedIds(c) == {t.monobankID : t \in {u \in TxsOf(c) : Imported(u)}}

\* one stored row for each monobank id of a card
OnePerId(c) == {CHOOSE t \in TxsOf(c) : t.monobankID = m : m \in ImportedIds(c)}

\* C24: when the overlapping SyncUserData runs have finished, each fetched
\* statement item is stored in exactly one row and has moved the balance of
\* its card once.
C24_OverlappingSyncsStoreOnce ==
    AllIdle
    => \A c \in DOMAIN cards :
          ~cards[c].isManual
          => /\ \A t1, t2 \in TxsOf(c) : t1.monobankID = t2.monobankID => t1 = t2
             /\ cards[c].balance = opening[c] + SumDeltas(OnePerId(c))

(***************************************************************************)
(* categoryService.GetTree                                                 *)
(***************************************************************************)

\* the names in the order of the ORDER BY of the database
NameOrder == <<"food", "misc", "more", "pay", "rent">>

NameRank(name) == CHOOSE i \in DOMAIN NameOrder : NameOrder[i] = name

\* ORDER BY CASE WHEN parent_id IS NULL THEN 0 ELSE 1 END, name
OrderKey(c) ==
    (IF cats[c].parent = 0 THEN 0 ELSE Len(NameOrder)) + NameRank(cats[c].name)

RECURSIVE OrderedBy(_)
OrderedBy(S) ==
    IF S = {} THEN <<>>
    ELSE LET m == CHOOSE x \in S : \A y \in S : OrderKey(x) <= OrderKey(y)
         IN <<m>> \o OrderedBy(S \ {m})

\* categoryRepository.GetByUserID: the ids of the user's rows, in the order
\* of the query
GetByUserID(userID) == OrderedBy({c \in DOMAIN cats : cats[c].owner = userID})

\* the orders in which a range over a Go map may yield the keys in S
MapOrders(S) == {s \in [1..Cardinality(S) -> S] : Range(s) = S}

\* categoryService.buildSubtree: the trees it may return.  The children are
\* appended in the order in which the range over categoryMap yields them,
\* which the language leaves unspecified.
RECURSIVE buildSubtree(_, _)
buildSubtree(category, categoryMap) ==
    LET kids == {k \in categoryMap : cats[k].parent = category}
        subtrees == UNION {buildSubtree(k, categoryMap) : k \in kids}
    IN {[category |-> category, children |-> children] :
          children \in UNION {
              {s \in [1..Cardinality(kids) -> subtrees] :
                  \A i \in 1..Cardinality(kids) :
                      s[i] \in buildSubtree(order[i], categoryMap)} :
              order \in MapOrders(kids)}}

\* categoryService.buildCategoryTree: the forests it may return; the roots
\* come in the order of the slice
buildCategoryTree(categories) ==
    LET roots == SelectSeq(categories, LAMBDA c : cats[c].parent = 0)
        trees == UNION {buildSubtree(roots[i], Range(categories)) : i \in DOMAIN roots}
    IN {s \in [DOMAIN roots -> trees] :
          \A i \in DOMAIN roots : s[i] \in buildSubtree(roots[i], Range(categories))}

\* categoryService.GetTree; the forest it returns is kept in req
GetTree(p, userID) ==
    /\ \E tree \in buildCategoryTree(GetByUserID(userID)) :
          req' = [req EXCEPT ![p] = [op |-> "GetTree", user |-> userID, tree |-> tree]]
    /\ UNCHANGED <<cards, txs, nextTx, integrations, cats, pc, last, opening>>

\* the category after n steps along the parents of c in the rows f, 0 once
\* a nil parent is passed
RECURSIVE Up(_, _, _)
Up(f, c, n) == IF n = 0 \/ c = 0 THEN c ELSE Up(f, f[c].parent, n - 1)

\* the hierarchies a sequence of Create calls that names stored parents of
\* the same owner leaves behind: forests, each within one owner
Forests ==
    {f \in [CatIds -> [owner : Users, name : Range(CatNames), type : {"expense"},
                       parent : 0..MaxCats]] :
        \A c \in CatIds :
            /\ f[c].name = CatNames[c]
            /\ Up(f, c, MaxCats) = 0
            /\ f[c].parent # 0 => f[f[c].parent].owner = f[c].owner}

InitTree ==
    /\ cards = (1 :> ManualCard(0, 0))
    /\ txs = {}
    /\ nextTx = 1
    /\ integrations = {}
    /\ cats \in Forests
    /\ pc = [p \in Procs |-> "idle"]
    /\ req = [p \in Procs |-> Idle]
    /\ last = NoCall
    /\ opening = [c \in DOMAIN cards |-> cards[c].balance]

NextTree == \E userID \in Users : GetTree(1, userID)

SpecTree == InitTree /\ [][NextTree]_vars

\* the <<parent, child>> pairs of a tree, one for each place a child holds
RECURSIVE Edges(_)
Edges(tree) ==
    IF tree.children = <<>> THEN <<>>
    ELSE LET Sub[i \in 0..Len(tree.children)] ==
                 IF i = 0 THEN <<>>
                 ELSE Sub[i - 1]
                      \o <<<<tree.category, tree.children[i].category>>>>
                      \o Edges(tree.children[i])
         IN Sub[Len(tree.children)]

RECURSIVE ForestEdges(_)
ForestEdges(forest) ==
    IF forest = <<>> THEN <<>> ELSE Edges(Head(forest)) \o ForestEdges(Tail(forest))

\* a list of trees is in the order of the names of its heads
ByName(list) ==
    \A i, j \in DOMAIN list :
        i < j => NameRank(cats[list[i].category].name)
                 < NameRank(cats[list[j].category].name)

RECURSIVE SiblingsByName(_)
SiblingsByName(tree) ==
    /\ ByName(tree.children)
    /\ \A i \in DOMAIN tree.children : SiblingsByName(tree.children[i])

\* C25: the forest GetTree returns has as roots exactly the owner's
\* categories without parent, holds every category that has a parent
\* exactly once, as a child of that parent, and has the roots and every
\* sibling group in the order of the names.
C25_TreeIsOrderedForest ==
    \A p \in Procs :
        req[p].op = "GetTree"
        => LET tree == req[p].tree
               mine == {c \in DOMAIN cats : cats[c].owner = req[p].user}
               edges == ForestEdges(tree)
           IN /\ {tree[i].category : i \in DOMAIN tree}
                    = {c \in mine : cats[c].parent = 0}
              /\ \A i, j \in DOMAIN tree : tree[i].category = tree[j].category => i = j
              /\ \A c \in mine :
                    cats[c].parent # 0
                    => Cardinality({i \in DOMAIN edges : edges[i][2] = c}) = 1
                       /\ \E i \in DOMAIN edges : edges[i] = <<cats[c].parent, c>>
              /\ ByName(tree)
              /\ \A i \in DOMAIN tree : SiblingsByName(tree[i])

(***************************************************************************)
(* Deleting cards while transactions are being stored                      *)
(***************************************************************************)

\* the insert of a transaction holds a key-share lock on the card row its
\* card_id references until its database transaction ends
CardRowLocked(c) ==
    \E q \in Procs : pc[q] \in {"first", "save"} /\ req[q].tx.card = c

\* variant: the card row goes and its transactions stay
DeleteCardKeepsTransactions(p, id) ==
    /\ pc[p] = "idle"
    /\ id \in DOMAIN cards => ~CardRowLocked(id)
    /\ IF id \notin DOMAIN cards
       THEN /\ last' = [NoCall EXCEPT !.op = "DeleteCard", !.result = "CardNotFound"]
            /\ UNCHANGED <<cards, txs>>
       ELSE /\ cards' = [c \in DOMAIN cards \ {id} |-> cards[c]]
            /\ UNCHANGED txs
            /\ last' = [NoCall EXCEPT !.op = "DeleteCard", !.result = "ok"]
    /\ UNCHANGED <<nextTx, integrations, cats, pc, req, opening>>

\* cardService.Delete with cardRepository.Delete: the transactions of the
\* card and the card go in one database transaction, which waits for the
\* locks on the card row
DeleteCard(p, id) ==
    /\ pc[p] = "idle"
    /\ id \in DOMAIN cards => ~CardRowLocked(id)
    /\ IF id \notin DOMAIN cards
       THEN /\ last' = [NoCall EXCEPT !.op = "DeleteCard", !.result = "CardNotFound"]
            /\ UNCHANGED <<cards, txs>>
       ELSE /\ txs' = {t \in txs : t.card # id}
            /\ cards' = [c \in DOMAIN cards \ {id} |-> cards[c]]
            /\ last' = [NoCall EXCEPT !.op = "DeleteCard", !.result = "ok"]
    /\ UNCHANGED <<nextTx, integrations, cats, pc, req, opening>>

\* Disconnect next to running inserts: its DELETE of the cards waits for the
\* locks on their rows
DisconnectWhenUnlocked(p, user) ==
    /\ \A c \in DisconnectedCards(user) : ~CardRowLocked(c)
    /\ Disconnect(p, user)

\* requests of user 1 on any goroutine, next to the deliveries of the
\* provider and the scheduler's polling
NextCardLife ==
    \/ \E p \in Procs :
          \/ CreateTransaction(p, 1, GoodCreate("expense", 1, 0))
          \/ RepoInsert(p)
          \/ RepoFirst(p)
          \/ RepoSave(p)
          \/ DisconnectWhenUnlocked(p, 1)
          \/ \E id \in DOMAIN opening : DeleteCard(p, id)
    \/ HandleWebhook(1, [type |-> "StatementItem", account |-> "acc1",
                          item |-> ProviderItems[1]])
    \/ SyncUserData(1, 1)
    \/ SyncNextCard(1, TRUE)
    \/ SyncNextItem(1)

\* a manual card with balance 1 and the provider card, both of user 1
InitCardLife ==
    /\ cards = (1 :> ManualCard(1, 0)) @@ (2 :> ProviderCard)
    /\ txs = {}
    /\ nextTx = 1
    /\ integrations = {Integration(1, 1, "t1")}
    /\ cats = (1 :> [owner |-> 1, name |-> "food", type |-> "expense", parent |-> 0])
    /\ pc = [p \in Procs |-> "idle"]
    /\ req = [p \in Procs |-> Idle]
    /\ last = NoCall
    /\ opening = [c \in DOMAIN cards |-> cards[c].balance]

SpecCardLife == InitCardLife /\ [][NextCardLife]_vars

\* C26: in every reachable state every stored transaction references a
\* card that exists.
C26_TransactionsHaveCards ==
    \A t \in txs : t.card \in DOMAIN cards

\* C26 witness: a webhook resolved the provider card, the card was removed
\* before the insert, and the insert failed; a transaction of the other
\* card is stored
C26_Witness ==
    /\ last.op = "HandleWebhook" /\ last.result = "DatabaseError"
    /\ 2 \notin DOMAIN cards
    /\ \E t \in txs : t.card = 1

(***************************************************************************)
(* The balance of a provider card under polling                            *)
(***************************************************************************)

\* C27: a provider card whose stored transactions all came from
\* SyncUserData still has the balance Connect stored for it, the balance
\* the provider reported.
C27_SyncKeepsProviderBalance ==
    \A c \in DOMAIN cards :
        (~cards[c].isManual /\ \A t \in TxsOf(c) : t.via = "SyncUserData")
        => cards[c].balance = opening[c]

(***************************************************************************)
(* Connect and the cards of other owners                                   *)
(***************************************************************************)

\* C28: the card write of a Connect call of one owner leaves every card of
\* every other owner as it was.
C28_ConnectLeavesOthersCards ==
    [][\A p \in Procs :
          (pc[p] = "conn_card_write" /\ pc'[p] # "conn_card_write")
          => \A c \in DOMAIN cards :
                cards[c].owner # req[p].user
                => (c \in DOMAIN cards' /\ cards'[c] = cards[c])]_vars

(***************************************************************************)
(* The cursor of the polling                                               *)
(***************************************************************************)

\* C29: when a SyncUserData run in which no statement request failed
\* returns, every item the provider holds for the user's cards, dated after
\* the first cursor, is stored on its card, whatever was stored before the
\* run and in whatever order.
C29_NoItemSkippedByCursor ==
    [][\A p \in Procs :
          (/\ pc[p] = "sync_card" /\ req[p].cardsLeft = <<>> /\ pc'[p] = "idle"
           /\ req[p].failed = {})
          => \A c \in SyncCards(req[p].user) : \A it \in ItemSet :
                (it.account = cards[c].account /\ it.time > MonthAgo)
                => \E t \in txs : t.card = c /\ t.monobankID = it.id]_vars

(***************************************************************************)
(* MoveCategory calls running in parallel.  The reads of a call (the two   *)
(* GetByID, the ancestor walk, the checks of categoryRepository.Update)    *)
(* are one step, its UPDATE is another; no database transaction spans them.*)
(***************************************************************************)

\* MoveCategory up to the Updates() of categoryRepository.Update
MoveCheck(p, categoryID, newParentID) ==
    /\ pc[p] = "idle"
    /\ IF MoveCategoryResult(categoryID, newParentID) = "ok"
       THEN /\ pc' = [pc EXCEPT ![p] = "move_write"]
            /\ req' = [req EXCEPT ![p] =
                          [op |-> "MoveCategory", id |-> categoryID,
                           name |-> cats[categoryID].name,
                           type |-> cats[categoryID].type,
                           parent |-> newParentID]]
            /\ last' = NoCall
       ELSE /\ last' = CatCall("MoveCategory",
                               MoveCategoryResult(categoryID, newParentID), categoryID)
            /\ UNCHANGED <<pc, req>>
    /\ UNCHANGED <<cards, txs, nextTx, integrations, cats, opening>>

\* the Updates() of categoryRepository.Update and the return of the call
MoveWrite(p) ==
    /\ pc[p] = "move_write"
    /\ cats' = IF req[p].id \in DOMAIN cats
               THEN [cats EXCEPT ![req[p].id] = [@ EXCEPT !.name = req[p].name,
                                                          !.parent = req[p].parent,
                                                          !.type = req[p].type]]
               ELSE cats
    /\ last' = CatCall("MoveCategory",
                       IF req[p].id \in DOMAIN cats THEN "ok" ELSE "DatabaseOperation",
                       req[p].id)
    /\ pc' = [pc EXCEPT ![p] = "idle"]
    /\ req' = [req EXCEPT ![p] = Idle]
    /\ UNCHANGED <<cards, txs, nextTx, integrations, opening>>

\* the categories of user 1, all roots
InitMove ==
    /\ cards = (1 :> ManualCard(0, 0))
    /\ txs = {}
    /\ nextTx = 1
    /\ integrations = {}
    /\ cats = [c \in CatIds |-> [owner |-> 1, name |-> CatNames[c],
                                 type |-> "expense", parent |-> 0]]
    /\ pc = [p \in Procs |-> "idle"]
    /\ req = [p \in Procs |-> Idle]
    /\ last = NoCall
    /\ opening = [c \in DOMAIN cards |-> cards[c].balance]

NextMove ==
    \E p \in Procs :
       \/ \E c \in CatIds, q \in 0..MaxCats : MoveCheck(p, c, q)
       \/ MoveWrite(p)

SpecMove == InitMove /\ [][NextMove]_vars

\* C30: whatever MoveCategory calls overlap on a hierarchy without cycles,
\* the parent chain of every category ends after at most as many steps as
\* there are categories.
C30_ConcurrentMovesKeepForest ==
    \A c \in DOMAIN cats : Up(cats, c, Cardinality(DOMAIN cats)) = 0

=============================================================================
